---- MODULE Spec2Model ----
(***************************************************************************)
(* Model of the todo MCP router of tauri-todo-mcp (src-tauri/src/mcp.rs).  *)
(*                                                                         *)
(* The persisted document is the value stored under the key "todos" of     *)
(* store.json.  The store keeps an in-memory copy (mem) next to the        *)
(* durable file (disk): reload copies disk to mem, get/set read and write  *)
(* mem, save copies mem to disk.                                           *)
(*                                                                         *)
(* Spec runs the tool calls one at a time, each call_tool being one atomic *)
(* action.  SpecArgs calls call_tool with any tool name and arguments.     *)
(* SpecConc runs several call_tool futures in parallel, interleaved at the *)
(* store operations.  SpecExt adds another process saving store.json.      *)
(* SpecSession runs one stdio session from handshake to process exit       *)
(* (src-tauri/src/lib.rs); SpecSessionFair adds its scheduling.            *)
(***************************************************************************)
EXTENDS Integers, Sequences, FiniteSets, TLC

\* ------------------------------------------------------------------ bounds
MaxTodos == 2
MaxClock == 2
NProcs == 2
MaxRequests == 3

Texts == {"a", "b"}
Procs == 1..NProcs

\* ------------------------------------------------------------------ state
VARIABLES
    store,   \* [mem, disk]: the value under "todos" in memory and on disk
    clock,   \* chrono::Utc::now().timestamp_millis()
    req,     \* the last request handled: [name, args]
    fault,   \* the store operation that failed while handling it, or "none"
    resp,    \* the response to it
    pre,     \* the store as it was when the last request arrived
    ops,     \* the store operations the last request performed, in order
    ref,     \* reference list: the calls so far applied to a plain list
    pc,      \* SpecConc: position of each concurrent call_tool future
    call,    \* SpecConc: the call each future executes
    local,   \* SpecConc: the `todos` local of each future
    session  \* SpecSession: the transport loop and the task that runs it

vars == <<store, clock, req, fault, resp, pre, ops, ref, pc, call, local,
          session>>

\* ------------------------------------------------------------- JSON values
\* serde_json::Value restricted to the shapes the argument checks tell apart.
JNull == [t |-> "null", s |-> "", n |-> 0, b |-> FALSE]
JStr(x) == [t |-> "string", s |-> x, n |-> 0, b |-> FALSE]
JInt(x) == [t |-> "integer", s |-> "", n |-> x, b |-> FALSE]
JBool(x) == [t |-> "boolean", s |-> "", n |-> 0, b |-> x]

\* Value::as_str / as_u64 / as_bool: Some(..) exactly in these cases.
is_str(j) == j.t = "string"
is_u64(j) == j.t = "integer" /\ j.n >= 0
is_bool(j) == j.t = "boolean"

\* ------------------------------------------------------------------- Todo
Todo(id, text, done) == [id |-> id, text |-> text, done |-> done]

Ids(todos) == {todos[i].id : i \in DOMAIN todos}

\* ------------------------------------------------------- document value
\* The value under TODOS_KEY: absent, not a well-formed array of Todo, or an
\* array of Todo.
Absent == [kind |-> "absent", arr |-> <<>>]
Malformed == [kind |-> "malformed", arr |-> <<>>]

\* serde_json::to_value(todos)
to_value(todos) == [kind |-> "array", arr |-> todos]

\* store.get(TODOS_KEY).and_then(|v| from_value::<Vec<Todo>>(v).ok())
\*      .unwrap_or_else(|| vec![])
from_value(v) == IF v.kind = "array" THEN v.arr ELSE <<>>

\* ------------------------------------------------------- store operations
StoreReload(st) == [st EXCEPT !.mem = st.disk]
StoreGet(st) == st.mem
StoreSet(st, v) == [st EXCEPT !.mem = v]
StoreSave(st) == [st EXCEPT !.disk = st.mem]

\* The store operation that fails during a call, if any.  A failing
\* app.store() is modelled at the handler's first use of it.
Faults == {"none", "open", "reload", "save"}

\* ------------------------------------------------------------ Vec helpers
\* Faulty variant of Position: the last element with the id.
PositionLast(todos, id) ==
    IF \E i \in DOMAIN todos : todos[i].id = id
    THEN CHOOSE i \in DOMAIN todos :
            /\ todos[i].id = id
            /\ \A j \in DOMAIN todos : todos[j].id = id => j <= i
    ELSE 0

\* todos.iter().position(|t| t.id == id), 0 for None
Position(todos, id) ==
    IF \E i \in DOMAIN todos : todos[i].id = id
    THEN CHOOSE i \in DOMAIN todos :
            /\ todos[i].id = id
            /\ \A j \in DOMAIN todos : todos[j].id = id => i <= j
    ELSE 0

\* Faulty variant of Retain: drops only the first element with the id.
RetainFirstOnly(todos, id) ==
    LET i == Position(todos, id)
    IN IF i = 0 THEN todos
       ELSE SubSeq(todos, 1, i - 1) \o SubSeq(todos, i + 1, Len(todos))

\* todos.retain(|todo| todo.id != id)
Retain(todos, id) ==
    LET keep(t) == t.id # id IN SelectSeq(todos, keep)

\* ----------------------------------------------------------- the handlers
\* A handler yields [st, err, val, ops]: the store afterwards, whether it
\* returned Err(ExecutionError), the value it returned, and the store
\* operations it attempted (the last one is the failed one when err).
Failed(st, o) == [st |-> st, err |-> TRUE, val |-> <<>>, ops |-> o]

\* Faulty variant of get_todos: a value that is not an array of Todo is an
\* error instead of the empty list.
get_todos_strict(st, f) ==
    IF f = "open" THEN Failed(st, <<"open">>)
    ELSE IF f = "reload" THEN Failed(st, <<"open", "reload">>)
    ELSE LET st1 == StoreReload(st)
         IN IF StoreGet(st1).kind = "malformed"
            THEN Failed(st1, <<"open", "reload", "get">>)
            ELSE [st |-> st1, err |-> FALSE, val |-> from_value(StoreGet(st1)),
                  ops |-> <<"open", "reload", "get">>]

\* Faulty variant of get_todos: reads the in-memory copy without reloading.
get_todos_cached(st, f) ==
    IF f = "open" THEN Failed(st, <<"open">>)
    ELSE [st |-> st, err |-> FALSE, val |-> from_value(StoreGet(st)),
          ops |-> <<"open", "get">>]

get_todos(st, f) ==
    IF f = "open" THEN Failed(st, <<"open">>)
    ELSE IF f = "reload" THEN Failed(st, <<"open", "reload">>)
    ELSE LET st1 == StoreReload(st)
         IN [st |-> st1, err |-> FALSE, val |-> from_value(StoreGet(st1)),
             ops |-> <<"open", "reload", "get">>]

\* Faulty variant of add_todo: the result of save is ignored.
add_todo_swallow(st, text, now, f) ==
    IF f = "open" THEN Failed(st, <<"open">>)
    ELSE LET g == get_todos(st, f)
         IN IF g.err THEN Failed(g.st, <<"open">> \o g.ops)
            ELSE LET todo == Todo(now, text, FALSE)
                     st2 == StoreSet(g.st, to_value(Append(g.val, todo)))
                 IN [st |-> IF f = "save" THEN st2 ELSE StoreSave(st2),
                     err |-> FALSE, val |-> <<todo>>,
                     ops |-> <<"open">> \o g.ops \o <<"set", "save">>]

\* Faulty variant of add_todo: returns the todo without saving the document.
add_todo_unsaved(st, text, now, f) ==
    IF f = "open" THEN Failed(st, <<"open">>)
    ELSE LET g == get_todos(st, f)
         IN IF g.err THEN Failed(g.st, <<"open">> \o g.ops)
            ELSE LET todo == Todo(now, text, FALSE)
                     st2 == StoreSet(g.st, to_value(Append(g.val, todo)))
                 IN [st |-> st2, err |-> FALSE, val |-> <<todo>>,
                     ops |-> <<"open">> \o g.ops \o <<"set">>]

add_todo(st, text, now, f) ==
    IF f = "open" THEN Failed(st, <<"open">>)
    ELSE LET g == get_todos(st, f)
         IN IF g.err THEN Failed(g.st, <<"open">> \o g.ops)
            ELSE LET todo == Todo(now, text, FALSE)
                     todos == Append(g.val, todo)
                     st2 == StoreSet(g.st, to_value(todos))
                     o == <<"open">> \o g.ops \o <<"set", "save">>
                 IN IF f = "save" THEN Failed(st2, o)
                    ELSE [st |-> StoreSave(st2), err |-> FALSE,
                          val |-> <<todo>>, ops |-> o]

\* Faulty variant of remove_todo: returns without saving the document.
remove_todo_unsaved(st, id, f) ==
    IF f = "open" THEN Failed(st, <<"open">>)
    ELSE LET g == get_todos(st, f)
         IN IF g.err THEN Failed(g.st, <<"open">> \o g.ops)
            ELSE [st |-> StoreSet(g.st, to_value(Retain(g.val, id))),
                  err |-> FALSE, val |-> <<>>,
                  ops |-> <<"open">> \o g.ops \o <<"set">>]

remove_todo(st, id, f) ==
    IF f = "open" THEN Failed(st, <<"open">>)
    ELSE LET g == get_todos(st, f)
         IN IF g.err THEN Failed(g.st, <<"open">> \o g.ops)
            ELSE LET todos == Retain(g.val, id)
                     st2 == StoreSet(g.st, to_value(todos))
                     o == <<"open">> \o g.ops \o <<"set", "save">>
                 IN IF f = "save" THEN Failed(st2, o)
                    ELSE [st |-> StoreSave(st2), err |-> FALSE,
                          val |-> <<>>, ops |-> o]

\* Faulty variant of update_todo: inserts the todo when its id is not found.
update_todo_upsert(st, todo, f) ==
    IF f = "open" THEN Failed(st, <<"open">>)
    ELSE LET g == get_todos(st, f)
         IN IF g.err THEN Failed(g.st, <<"open">> \o g.ops)
            ELSE LET index == Position(g.val, todo.id)
                     todos == IF index # 0
                              THEN [g.val EXCEPT ![index] = todo]
                              ELSE Append(g.val, todo)
                     st2 == StoreSet(g.st, to_value(todos))
                     o == <<"open">> \o g.ops \o <<"set", "save">>
                 IN IF f = "save" THEN Failed(st2, o)
                    ELSE [st |-> StoreSave(st2), err |-> FALSE,
                          val |-> <<>>, ops |-> o]

update_todo(st, todo, f) ==
    IF f = "open" THEN Failed(st, <<"open">>)
    ELSE LET g == get_todos(st, f)
         IN IF g.err THEN Failed(g.st, <<"open">> \o g.ops)
            ELSE LET index == Position(g.val, todo.id)
                     st2 == IF index # 0
                            THEN StoreSet(g.st,
                                     to_value([g.val EXCEPT ![index] = todo]))
                            ELSE g.st
                     o == <<"open">> \o g.ops
                          \o (IF index # 0 THEN <<"set">> ELSE <<>>)
                          \o <<"save">>
                 IN IF f = "save" THEN Failed(st2, o)
                    ELSE [st |-> StoreSave(st2), err |-> FALSE,
                          val |-> <<>>, ops |-> o]

\* ------------------------------------------------------------- the router
\* Router::list_tools: name and argument schema (properties in `required`
\* order with their declared "type") of each descriptor.
list_tools ==
    << [name |-> "get_todos", required |-> <<>>],
       [name |-> "add_todo",
        required |-> << [field |-> "text", type |-> "string"] >>],
       [name |-> "remove_todo",
        required |-> << [field |-> "id", type |-> "integer"] >>],
       [name |-> "update_todo",
        required |-> << [field |-> "id", type |-> "integer"],
                        [field |-> "text", type |-> "string"],
                        [field |-> "done", type |-> "boolean"] >>] >>

\* Responses.  body tells what the text content holds: the JSON array of all
\* todos, the JSON object of one todo, or the empty string.
Ok(body, todos) ==
    [kind |-> "Ok", arg |-> "", body |-> body, todos |-> todos]
Err(kind, arg) ==
    [kind |-> kind, arg |-> arg, body |-> "none", todos |-> <<>>]

Reply(st, r, o) == [st |-> st, resp |-> r, ops |-> o]

\* Faulty variant of Respond: the handler's result is unwrapped, so a store
\* error panics instead of being returned.
RespondUnwrap(h, body) ==
    Reply(h.st,
          IF h.err THEN Err("Panic", "") ELSE Ok(body, h.val),
          h.ops)

\* Map a handler's outcome to the response (the `?` and the Ok(vec![..])).
Respond(h, body) ==
    Reply(h.st,
          IF h.err THEN Err("ExecutionError", "") ELSE Ok(body, h.val),
          h.ops)

\* Faulty variant of call_tool: the update_todo arm is missing.
call_tool_no_update(st, tool_name, arguments, now, f) ==
    CASE tool_name = "get_todos" ->
            Respond(get_todos(st, f), "array")
      [] tool_name = "add_todo" ->
            IF ~is_str(arguments.text)
            THEN Reply(st, Err("InvalidParameters", "text"), <<>>)
            ELSE Respond(add_todo(st, arguments.text.s, now, f), "object")
      [] tool_name = "remove_todo" ->
            IF ~is_u64(arguments.id)
            THEN Reply(st, Err("InvalidParameters", "id"), <<>>)
            ELSE Respond(remove_todo(st, arguments.id.n, f), "empty")
      [] OTHER -> Reply(st, Err("NotFound", tool_name), <<>>)

\* Faulty variant of call_tool: update_todo checks text before id.
call_tool_text_first(st, tool_name, arguments, now, f) ==
    CASE tool_name = "get_todos" ->
            Respond(get_todos(st, f), "array")
      [] tool_name = "add_todo" ->
            IF ~is_str(arguments.text)
            THEN Reply(st, Err("InvalidParameters", "text"), <<>>)
            ELSE Respond(add_todo(st, arguments.text.s, now, f), "object")
      [] tool_name = "remove_todo" ->
            IF ~is_u64(arguments.id)
            THEN Reply(st, Err("InvalidParameters", "id"), <<>>)
            ELSE Respond(remove_todo(st, arguments.id.n, f), "empty")
      [] tool_name = "update_todo" ->
            IF ~is_str(arguments.text)
            THEN Reply(st, Err("InvalidParameters", "text"), <<>>)
            ELSE IF ~is_u64(arguments.id)
            THEN Reply(st, Err("InvalidParameters", "id"), <<>>)
            ELSE IF ~is_bool(arguments.done)
            THEN Reply(st, Err("InvalidParameters", "done"), <<>>)
            ELSE Respond(update_todo(st,
                             Todo(arguments.id.n, arguments.text.s,
                                  arguments.done.b), f), "empty")
      [] OTHER -> Reply(st, Err("NotFound", tool_name), <<>>)

\* Router::call_tool
call_tool(st, tool_name, arguments, now, f) ==
    CASE tool_name = "get_todos" ->
            Respond(get_todos(st, f), "array")
      [] tool_name = "add_todo" ->
            IF ~is_str(arguments.text)
            THEN Reply(st, Err("InvalidParameters", "text"), <<>>)
            ELSE Respond(add_todo(st, arguments.text.s, now, f), "object")
      [] tool_name = "remove_todo" ->
            IF ~is_u64(arguments.id)
            THEN Reply(st, Err("InvalidParameters", "id"), <<>>)
            ELSE Respond(remove_todo(st, arguments.id.n, f), "empty")
      [] tool_name = "update_todo" ->
            IF ~is_u64(arguments.id)
            THEN Reply(st, Err("InvalidParameters", "id"), <<>>)
            ELSE IF ~is_str(arguments.text)
            THEN Reply(st, Err("InvalidParameters", "text"), <<>>)
            ELSE IF ~is_bool(arguments.done)
            THEN Reply(st, Err("InvalidParameters", "done"), <<>>)
            ELSE Respond(update_todo(st,
                             Todo(arguments.id.n, arguments.text.s,
                                  arguments.done.b), f), "empty")
      [] OTHER -> Reply(st, Err("NotFound", tool_name), <<>>)

\* ------------------------------------------------------- reference list
\* The plain list the calls are meant to act on: add appends, remove deletes
\* the elements with the id, update replaces the element with the id.
RefAdd(l, t) == l \o <<t>>

RefRemove(l, id) ==
    LET F[i \in 0..Len(l)] ==
            IF i = 0 THEN <<>>
            ELSE IF l[i].id = id THEN F[i - 1] ELSE F[i - 1] \o <<l[i]>>
    IN F[Len(l)]

RefUpdate(l, t) == [i \in DOMAIN l |-> IF l[i].id = t.id THEN t ELSE l[i]]

RefApply(l, name, arguments, r) ==
    IF r.kind # "Ok" THEN l
    ELSE CASE name = "add_todo" -> RefAdd(l, r.todos[1])
           [] name = "remove_todo" -> RefRemove(l, arguments.id.n)
           [] name = "update_todo" ->
                 RefUpdate(l, Todo(arguments.id.n, arguments.text.s,
                                   arguments.done.b))
           [] OTHER -> l

\* ------------------------------------------------------------ the inputs
NoArgs == [id |-> JNull, text |-> JNull, done |-> JNull]

NoReq == [name |-> "none", args |-> NoArgs]
NoResp == Err("none", "")

\* Ids a caller may name: every timestamp, and 0, which no todo ever has.
CallIds == 0..MaxClock

\* The edits update_todo is called with: check off with a new text, reset.
UpdateInputs == {[text |-> "b", done |-> TRUE], [text |-> "a", done |-> FALSE]}

\* Argument values of SpecArgs: missing, of the wrong type, negative, good.
ArgIds == {JNull, JStr("a"), JInt(-1), JInt(0), JInt(1)}
ArgTexts == {JNull, JInt(1), JStr("a")}
ArgDones == {JNull, JStr("a"), JBool(TRUE)}

ToolNames == {"get_todos", "add_todo", "remove_todo", "update_todo"}
UnknownNames == {"list_todos", ""}

\* The session at process start: the setup closure has spawned the task
\* that awaits start_server, nothing has been read or written yet.
NoSession ==
    [sess |-> "Handshake", cause |-> "none", task |-> "running",
     proc |-> "running", status |-> -1, inq |-> <<>>, cur |-> 0,
     have |-> FALSE, out |-> <<>>]

\* ---------------------------------------------------- Spec: serial calls
Init ==
    /\ \E v \in {Absent, Malformed, to_value(<<>>)} :
           store = [mem |-> v, disk |-> v]
    /\ clock = 1
    /\ req = NoReq
    /\ fault = "none"
    /\ resp = NoResp
    /\ pre = store
    /\ ops = <<>>
    /\ ref = <<>>
    /\ pc = [p \in Procs |-> "idle"]
    /\ call = [p \in Procs |-> NoReq]
    /\ local = [p \in Procs |-> <<>>]
    /\ session = NoSession

\* call_tool run on one request: its effect on the store and its response.
Serve(tool_name, arguments, f) ==
    \E r \in {call_tool(store, tool_name, arguments, clock, f)} :
       /\ store' = r.st
       /\ req' = [name |-> tool_name, args |-> arguments]
       /\ fault' = f
       /\ resp' = r.resp
       /\ pre' = store
       /\ ops' = r.ops
       /\ ref' = RefApply(ref, tool_name, arguments, r.resp)
       /\ UNCHANGED <<clock, pc, call, local>>

\* One request handled from decode to response: Router::call_tool.
Handle(tool_name, arguments, f) ==
    Serve(tool_name, arguments, f) /\ UNCHANGED session

\* Spec calls the tools with well-typed arguments.  A store failure is
\* injected on one representative argument per outcome of the handler.
CallGetTodos ==
    \E f \in Faults \ {"save"} : Handle("get_todos", NoArgs, f)

CallAddTodo ==
    \E text \in Texts, f \in Faults :
        /\ Len(from_value(store.disk)) < MaxTodos
        /\ f = "none" \/ text = "a"
        /\ Handle("add_todo", [NoArgs EXCEPT !.text = JStr(text)], f)

CallRemoveTodo ==
    \E id \in CallIds, f \in Faults :
        /\ f = "none" \/ id <= 1
        /\ Handle("remove_todo", [NoArgs EXCEPT !.id = JInt(id)], f)

CallUpdateTodo ==
    \E id \in CallIds, u \in UpdateInputs, f \in Faults :
        /\ f = "none" \/ (id <= 1 /\ u.done)
        /\ Handle("update_todo",
                  [id |-> JInt(id), text |-> JStr(u.text), done |-> JBool(u.done)],
                  f)

\* A millisecond passes.
Tick ==
    /\ clock < MaxClock
    /\ clock' = clock + 1
    /\ UNCHANGED <<store, req, fault, resp, pre, ops, ref, pc, call, local, session>>

Next ==
    \/ CallGetTodos
    \/ CallAddTodo
    \/ CallRemoveTodo
    \/ CallUpdateTodo
    \/ Tick

Spec == Init /\ [][Next]_vars

\* ------------------------------------------- SpecArgs: arbitrary requests
\* The same router called with any tool name and any arguments, the store
\* never failing and every call falling in the same millisecond.
ArgsGetTodos ==
    \E id \in {JNull, JInt(1)} :
        Handle("get_todos", [NoArgs EXCEPT !.id = id], "none")

ArgsAddTodo ==
    \E text \in ArgTexts :
        /\ is_str(text) => Len(from_value(store.disk)) < MaxTodos
        /\ Handle("add_todo", [NoArgs EXCEPT !.text = text], "none")

ArgsRemoveTodo ==
    \E id \in ArgIds : Handle("remove_todo", [NoArgs EXCEPT !.id = id], "none")

ArgsUpdateTodo ==
    \E id \in ArgIds, text \in ArgTexts, done \in ArgDones :
        Handle("update_todo", [id |-> id, text |-> text, done |-> done], "none")

ArgsUnknown ==
    \E n \in UnknownNames, id \in {JNull, JInt(1)} :
        Handle(n, [NoArgs EXCEPT !.id = id], "none")

NextArgs ==
    \/ ArgsGetTodos
    \/ ArgsAddTodo
    \/ ArgsRemoveTodo
    \/ ArgsUpdateTodo
    \/ ArgsUnknown

SpecArgs == Init /\ [][NextArgs]_vars

\* ----------------------------------------- SpecConc: concurrent mutators
\* Several call_tool futures of mutating tools polled in parallel.  Nothing
\* in call_tool or in the handlers orders them, so their store operations
\* interleave freely; each store operation is atomic.
ConcCalls ==
    {[name |-> "add_todo", args |-> [NoArgs EXCEPT !.text = JStr(x)]] :
        x \in Texts}
    \cup {[name |-> "remove_todo", args |-> [NoArgs EXCEPT !.id = JInt(i)]] :
        i \in 1..MaxClock}
    \cup {[name |-> "update_todo",
           args |-> [id |-> JInt(i), text |-> JStr("b"), done |-> JBool(TRUE)]] :
        i \in 1..MaxClock}

InitConc ==
    /\ \E v \in {Absent, to_value(<<>>)} : store = [mem |-> v, disk |-> v]
    /\ clock = 1
    /\ req = NoReq
    /\ fault = "none"
    /\ resp = NoResp
    /\ pre = store
    /\ ops = <<>>
    /\ ref = <<>>
    /\ pc = [p \in Procs |-> "idle"]
    /\ call = [p \in Procs |-> NoReq]
    /\ local = [p \in Procs |-> <<>>]
    /\ session = NoSession

\* call_tool arm: arguments extracted, handler entered, app.store() done.
Begin(p) ==
    /\ pc[p] = "idle"
    /\ \E c \in ConcCalls : call' = [call EXCEPT ![p] = c]
    /\ pc' = [pc EXCEPT ![p] = "opened"]
    /\ UNCHANGED <<store, clock, req, fault, resp, pre, ops, ref, local, session>>

\* get_todos: store.reload()
Reload(p) ==
    /\ pc[p] = "opened"
    /\ store' = StoreReload(store)
    /\ pc' = [pc EXCEPT ![p] = "reloaded"]
    /\ UNCHANGED <<clock, req, fault, resp, pre, ops, ref, call, local, session>>

\* get_todos: store.get(TODOS_KEY) and the parse
Read(p) ==
    /\ pc[p] = "reloaded"
    /\ local' = [local EXCEPT ![p] = from_value(StoreGet(store))]
    /\ pc' = [pc EXCEPT ![p] = "read"]
    /\ UNCHANGED <<store, clock, req, fault, resp, pre, ops, ref, call, session>>

\* The handler's computation on its local `todos`.
Computed(c, todos, now) ==
    CASE c.name = "add_todo" -> Append(todos, Todo(now, c.args.text.s, FALSE))
      [] c.name = "remove_todo" -> Retain(todos, c.args.id.n)
      [] c.name = "update_todo" ->
            LET index == Position(todos, c.args.id.n)
            IN IF index # 0
               THEN [todos EXCEPT ![index] =
                        Todo(c.args.id.n, c.args.text.s, c.args.done.b)]
               ELSE todos
      [] OTHER -> todos

\* update_todo calls store.set only when the id was found.
SkipsSet(c, todos) ==
    c.name = "update_todo" /\ Position(todos, c.args.id.n) = 0

Compute(p) ==
    /\ pc[p] = "read"
    /\ local' = [local EXCEPT ![p] = Computed(call[p], local[p], clock)]
    /\ pc' = [pc EXCEPT ![p] =
                 IF SkipsSet(call[p], local[p]) THEN "set" ELSE "computed"]
    /\ UNCHANGED <<store, clock, req, fault, resp, pre, ops, ref, call, session>>

\* store.set(TODOS_KEY, to_value(todos))
Set(p) ==
    /\ pc[p] = "computed"
    /\ store' = StoreSet(store, to_value(local[p]))
    /\ pc' = [pc EXCEPT ![p] = "set"]
    /\ UNCHANGED <<clock, req, fault, resp, pre, ops, ref, call, local, session>>

\* store.save(), then the handler returns
Save(p) ==
    /\ pc[p] = "set"
    /\ store' = StoreSave(store)
    /\ pc' = [pc EXCEPT ![p] = "done"]
    /\ UNCHANGED <<clock, req, fault, resp, pre, ops, ref, call, local, session>>

NextConc ==
    \/ \E p \in Procs : Begin(p)
    \/ \E p \in Procs : Reload(p)
    \/ \E p \in Procs : Read(p)
    \/ \E p \in Procs : Compute(p)
    \/ \E p \in Procs : Set(p)
    \/ \E p \in Procs : Save(p)
    \/ Tick

SpecConc == InitConc /\ [][NextConc]_vars

\* --------------------------------------- SpecExt: another writer of disk
\* The documents another process (the windowed app, or an earlier run) may
\* leave in store.json.
ExternalDocs ==
    {Malformed, to_value(<<>>), to_value(<<Todo(1, "b", TRUE)>>)}

\* Another process saves store.json; this process's in-memory copy stays.
\* The reference list restarts from the document saved.
ExternalSave ==
    /\ \E d \in ExternalDocs :
          /\ d # store.disk
          /\ store' = [store EXCEPT !.disk = d]
          /\ ref' = from_value(d)
    /\ UNCHANGED <<clock, req, fault, resp, pre, ops, pc, call, local, session>>

NextExt ==
    \/ CallGetTodos
    \/ CallAddTodo
    \/ CallRemoveTodo
    \/ ExternalSave

SpecExt == Init /\ [][NextExt]_vars

\* ------------------------------------- SpecSession: the server process
\* lib.rs run(), mcp branch: the setup closure spawns a task that awaits
\* start_server and then calls handle.exit(0).  start_server runs the
\* transport loop over stdin/stdout: one request is read, dispatched to
\* call_tool and answered before the next is read.
SessionRequests ==
    {[name |-> "get_todos", args |-> NoArgs],
     [name |-> "add_todo", args |-> [NoArgs EXCEPT !.text = JStr("a")]],
     [name |-> "add_todo", args |-> NoArgs],
     [name |-> "list_todos", args |-> NoArgs]}

SessionFaults == {"none", "save"}

\* The handshake: the peer is told the capabilities and the session serves.
Initialize ==
    /\ session.sess = "Handshake"
    /\ session' = [session EXCEPT !.sess = "Serving"]
    /\ UNCHANGED <<store, clock, req, fault, resp, pre, ops, ref, pc, call,
                   local>>

\* Faulty variant of ReadRequest: the next request is read while the
\* previous one is still being handled.
ReadRequestPipelined ==
    /\ session.sess = "Serving"
    /\ Len(session.inq) < MaxRequests
    /\ \E r \in SessionRequests :
          session' = [session EXCEPT !.inq = Append(@, r),
                                     !.cur = Len(session.inq) + 1,
                                     !.have = FALSE]
    /\ UNCHANGED <<store, clock, req, fault, resp, pre, ops, ref, pc, call,
                   local>>

\* The transport decodes the next request.
ReadRequest ==
    /\ session.sess = "Serving"
    /\ session.cur = 0
    /\ Len(session.inq) < MaxRequests
    /\ \E r \in SessionRequests :
          session' = [session EXCEPT !.inq = Append(@, r),
                                     !.cur = Len(session.inq) + 1]
    /\ UNCHANGED <<store, clock, req, fault, resp, pre, ops, ref, pc, call,
                   local>>

\* The request is dispatched: call_tool runs to its result inside the task.
\* A panic in it would unwind the task and end the loop with no response.
Dispatch ==
    /\ session.sess = "Serving"
    /\ session.cur # 0
    /\ ~session.have
    /\ \E f \in SessionFaults :
          LET r == session.inq[session.cur]
          IN Serve(r.name, r.args, f)
    /\ session' = IF resp'.kind = "Panic"
                  THEN [session EXCEPT !.sess = "Closed", !.cause = "panic",
                                       !.task = "panicked", !.cur = 0]
                  ELSE [session EXCEPT !.have = TRUE]

\* The response is encoded and written.
WriteResponse ==
    /\ session.sess = "Serving"
    /\ session.have
    /\ session' = [session EXCEPT
                      !.out = Append(@, [id |-> session.cur,
                                         name |-> req.name,
                                         kind |-> resp.kind]),
                      !.cur = 0,
                      !.have = FALSE]
    /\ UNCHANGED <<store, clock, req, fault, resp, pre, ops, ref, pc, call,
                   local>>

\* stdin reaches end-of-input: server.run returns Ok(()).
EndOfInput ==
    /\ session.sess \in {"Handshake", "Serving"}
    /\ session.cur = 0
    /\ session' = [session EXCEPT !.sess = "Closed", !.cause = "eof",
                                  !.task = "returned_ok"]
    /\ UNCHANGED <<store, clock, req, fault, resp, pre, ops, ref, pc, call,
                   local>>

\* Reading stdin or writing stdout fails: server.run returns Err, which
\* start_server passes on with `?`.
TransportFails ==
    /\ session.sess \in {"Handshake", "Serving"}
    /\ session.cur = 0 \/ session.have
    /\ session' = [session EXCEPT !.sess = "Closed", !.cause = "io",
                                  !.task = "returned_err", !.cur = 0,
                                  !.have = FALSE]
    /\ UNCHANGED <<store, clock, req, fault, resp, pre, ops, ref, pc, call,
                   local>>

\* start_server returned Ok: the task calls handle.exit(0).
ExitProcess ==
    /\ session.task = "returned_ok"
    /\ session' = [session EXCEPT !.task = "exited", !.proc = "exited",
                                  !.status = 0]
    /\ UNCHANGED <<store, clock, req, fault, resp, pre, ops, ref, pc, call,
                   local>>

\* start_server returned Err: `.unwrap()` panics in the spawned task.  With
\* unwinding the task dies before handle.exit(0) and the process keeps
\* running; in a build with panic = "abort" the process aborts.
AbortStatus == 134

UnwrapPanics ==
    /\ session.task = "returned_err"
    /\ \/ session' = [session EXCEPT !.task = "panicked"]
       \/ session' = [session EXCEPT !.task = "exited", !.proc = "exited",
                                     !.status = AbortStatus]
    /\ UNCHANGED <<store, clock, req, fault, resp, pre, ops, ref, pc, call,
                   local>>

NextSession ==
    \/ Initialize
    \/ ReadRequest
    \/ Dispatch
    \/ WriteResponse
    \/ EndOfInput
    \/ TransportFails
    \/ ExitProcess
    \/ UnwrapPanics

SpecSession == Init /\ [][NextSession]_vars

\* The runtime keeps polling the task: a request being handled is
\* dispatched and its response written, and a returned start_server is
\* followed by the exit or the panic.
SpecSessionFair ==
    /\ SpecSession
    /\ WF_vars(Dispatch)
    /\ WF_vars(WriteResponse)
    /\ WF_vars(ExitProcess)
    /\ WF_vars(UnwrapPanics)

\* ================================================================ claims
\* What get_todos returned just before the last request, and what it would
\* return now (both reload first, so both read the durable document).
PreTodos == get_todos(pre, "none").val
NowTodos == get_todos(store, "none").val

LastOk(name) == req.name = name /\ resp.kind = "Ok"

Distinct(todos) ==
    \A i, j \in DOMAIN todos : i # j => todos[i].id # todos[j].id

Count(todos, id) == Cardinality({i \in DOMAIN todos : todos[i].id = id})

IdSeq(todos) == [i \in DOMAIN todos |-> todos[i].id]

\* C1: after any sequence of serial add/remove/update calls, get_todos
\* returns the reference list built by the same calls, each add having
\* appended an id that was fresh in the reference list.
C1_SerialNetEffect == NowTodos = ref /\ Distinct(ref)

\* C2: once N concurrent add_todo calls on an empty store have all returned,
\* the document holds exactly N todos with N distinct ids.
C2_ConcurrentAdds ==
    (\A p \in Procs : pc[p] = "done" /\ call[p].name = "add_todo")
        => /\ Len(from_value(store.disk)) = NProcs
           /\ Cardinality(Ids(from_value(store.disk))) = NProcs

\* C3: at most one mutating handler is between its reload and its save.
Critical == {"reloaded", "read", "computed", "set"}
C3_MutualExclusion == Cardinality({p \in Procs : pc[p] \in Critical}) <= 1

\* C4: a successful add_todo returns an id that no todo had before the call.
C4_AddReturnsFreshId ==
    LastOk("add_todo") => resp.todos[1].id \notin Ids(PreTodos)

\* C5: the persisted todos never hold two elements with the same id, and no
\* call changes the id of an existing element: a step leaves the sequence of
\* ids as it is, appends one id, or deletes the occurrences of one id.
IdsKept ==
    LET old == IdSeq(from_value(store.disk))
        new == IdSeq(from_value(store'.disk))
    IN \/ new = old
       \/ \E i \in 0..MaxClock : new = Append(old, i)
       \/ \E i \in 0..MaxClock : new = SelectSeq(old, LAMBDA x : x # i)
C5_IdsUnique == [](Distinct(from_value(store.disk))) /\ [][IdsKept]_vars

\* C6: after a successful remove_todo(id) get_todos holds no element with
\* that id; when no element had the id and the store did not fail, the call
\* succeeds and get_todos returns the same sequence as before.
C6_RemoveTodo ==
    req.name = "remove_todo" =>
        /\ resp.kind = "Ok" => req.args.id.n \notin Ids(NowTodos)
        /\ (req.args.id.n \notin Ids(PreTodos) /\ fault = "none")
               => resp.kind = "Ok" /\ NowTodos = PreTodos

\* C6 witness: a remove_todo that succeeded on a list holding its id twice.
C6_Witness ==
    LastOk("remove_todo") /\ Count(PreTodos, req.args.id.n) >= 2

\* C7: update_todo with an id that no todo has succeeds, saves without a
\* set, and leaves the document and the todos unchanged.
C7_UpdateUnknownId ==
    (req.name = "update_todo" /\ req.args.id.n \notin Ids(PreTodos)
        /\ fault = "none")
        => /\ resp = Ok("empty", <<>>)
           /\ store.disk = pre.disk
           /\ NowTodos = PreTodos
           /\ ops = <<"open", "open", "reload", "get", "save">>

\* C7 witness: such an update_todo handled on a non-empty list.
C7_Witness ==
    /\ LastOk("update_todo")
    /\ req.args.id.n \notin Ids(PreTodos)
    /\ PreTodos # <<>>

\* C8: after add_todo(x) succeeds on a store holding no todo with text x,
\* get_todos holds exactly one element with text x; it is not done and has
\* the id add_todo returned.
WithText(todos, x) == {i \in DOMAIN todos : todos[i].text = x}
C8_AddRoundTrip ==
    (LastOk("add_todo") /\ WithText(PreTodos, req.args.text.s) = {})
        => /\ Cardinality(WithText(NowTodos, req.args.text.s)) = 1
           /\ \A i \in WithText(NowTodos, req.args.text.s) :
                 /\ NowTodos[i].done = FALSE
                 /\ NowTodos[i].id = resp.todos[1].id
                 /\ resp = Ok("object", <<NowTodos[i]>>)

\* C8 witness: such an add_todo on a store that already held another todo.
C8_Witness ==
    /\ LastOk("add_todo")
    /\ WithText(PreTodos, req.args.text.s) = {}
    /\ PreTodos # <<>>

\* C9: call_tool answers NotFound(name) exactly for the names list_tools
\* does not list, and then without touching the store; list_tools lists
\* get_todos, add_todo, remove_todo and update_todo.
ListedNames == {list_tools[i].name : i \in DOMAIN list_tools}
C9_NotFoundIffUnlisted ==
    /\ ListedNames = ToolNames /\ Len(list_tools) = 4
    /\ req.name # "none" =>
          /\ resp.kind = "NotFound" <=> req.name \notin ListedNames
          /\ resp.kind = "NotFound" =>
                resp.arg = req.name /\ ops = <<>> /\ store = pre

\* C9 witness: an unlisted name answered NotFound on a non-empty document,
\* its arguments being what remove_todo would accept.
C9_Witness ==
    /\ resp.kind = "NotFound"
    /\ is_u64(req.args.id)
    /\ from_value(store.disk) # <<>>

\* The required fields of a listed tool, in `required` order.
Schema(name) ==
    LET i == CHOOSE k \in DOMAIN list_tools : list_tools[k].name = name
    IN list_tools[i].required

\* The first field of the schema that the arguments violate, "" when none.
FirstViolation(name, arguments, Conforms(_, _)) ==
    LET sch == Schema(name)
        bad == {k \in DOMAIN sch :
                   ~Conforms(arguments[sch[k].field], sch[k].type)}
    IN IF bad = {} THEN ""
       ELSE sch[CHOOSE k \in bad : \A m \in bad : k <= m].field

\* A value has the declared primitive type.
HasType(j, type) == j.t = type

\* A value has the declared primitive type and, for an integer, is not
\* negative.
HasUnsignedType(j, type) == j.t = type /\ (type = "integer" => j.n >= 0)

\* C10 as claimed: when a required field of the tool's schema is missing or
\* not of the declared primitive type, call_tool answers InvalidParameters
\* naming the first such field in `required` order and performs no store
\* operation.
C10_FirstOffender ==
    LET v == FirstViolation(req.name, req.args, HasType)
    IN (req.name \in ListedNames /\ v # "")
          => /\ resp = Err("InvalidParameters", v)
             /\ store = pre
             /\ ops = <<>>

\* C10 as amended: a field also violates its schema when it is declared
\* integer and holds a negative integer; InvalidParameters names the first
\* violating field in `required` order; the store is then as before and no
\* store operation ran.
C10_FirstOffenderUnsigned ==
    LET v == FirstViolation(req.name, req.args, HasUnsignedType)
    IN (req.name \in ListedNames /\ v # "")
          => /\ resp = Err("InvalidParameters", v)
             /\ store = pre
             /\ ops = <<>>

\* C10 witness: update_todo on a non-empty document with a negative id and
\* a missing text, answered InvalidParameters("id").
C10_Witness ==
    /\ req.name = "update_todo"
    /\ req.args.id = JInt(-1)
    /\ req.args.text = JNull
    /\ resp = Err("InvalidParameters", "id")
    /\ from_value(store.disk) # <<>>

\* ---------------------------------------------------------------- C13
Mutating == {"add_todo", "remove_todo", "update_todo"}

\* The requests a later caller may send, well typed.
LaterCalls ==
    {[name |-> "get_todos", args |-> NoArgs],
     [name |-> "add_todo", args |-> [NoArgs EXCEPT !.text = JStr("a")]],
     [name |-> "remove_todo", args |-> [NoArgs EXCEPT !.id = JInt(1)]],
     [name |-> "update_todo",
      args |-> [id |-> JInt(1), text |-> JStr("b"), done |-> JBool(TRUE)]],
     [name |-> "update_todo",
      args |-> [id |-> JInt(0), text |-> JStr("b"), done |-> JBool(TRUE)]]}

\* A later call answers, and leaves on disk, what it would if the in-memory
\* copy held the durable document.
MemoryUnobserved ==
    \A c \in LaterCalls, f \in Faults :
        LET here == call_tool(store, c.name, c.args, clock, f)
            clean == call_tool(StoreReload(store), c.name, c.args, clock, f)
        IN here.resp = clean.resp /\ here.st.disk = clean.st.disk

\* C13: a mutating call during which open, reload or save failed answers
\* ExecutionError and leaves the durable document as it was; what set left
\* in memory before a failed save is not observed by any later call.
C13_NotCommitted ==
    /\ (req.name \in Mutating /\ fault # "none")
          => resp = Err("ExecutionError", "") /\ store.disk = pre.disk
    /\ MemoryUnobserved

\* C13 witness: an add_todo whose save failed after its set.
C13_Witness ==
    /\ req.name = "add_todo"
    /\ fault = "save"
    /\ resp.kind = "ExecutionError"
    /\ store.mem # store.disk
    /\ from_value(store.mem) # from_value(store.disk)

\* ---------------------------------------------------------------- C17
\* The durable document holds the mutation of the last request.
Committed ==
    LET disk == from_value(store.disk)
    IN CASE req.name = "add_todo" ->
               /\ store.disk.kind = "array"
               /\ disk = Append(PreTodos, resp.todos[1])
         [] req.name = "remove_todo" ->
               /\ store.disk.kind = "array"
               /\ req.args.id.n \notin Ids(disk)
         [] req.name = "update_todo" ->
               req.args.id.n \in Ids(PreTodos) =>
                  \E i \in DOMAIN disk :
                     disk[i] = Todo(req.args.id.n, req.args.text.s,
                                    req.args.done.b)
         [] OTHER -> TRUE

\* C17: a mutating call that answered Ok ended with a save, the durable
\* document equals the in-memory one and holds the mutation; a set whose
\* save failed changed nothing in the durable document.
C17_CommitBeforeSuccess ==
    /\ (req.name \in Mutating /\ resp.kind = "Ok")
          => /\ ops # <<>> /\ ops[Len(ops)] = "save"
             /\ store.disk = store.mem
             /\ Committed
    /\ (req.name \in Mutating /\ fault = "save") => store.disk = pre.disk

\* C17 witness: a remove_todo that deleted a todo, called while the memory
\* copy still held the leftover of an earlier failed save.
C17_Witness ==
    /\ LastOk("remove_todo")
    /\ req.args.id.n \in Ids(PreTodos)
    /\ pre.mem # pre.disk

\* ---------------------------------------------------------------- C18
FirstWithId(todos, id) ==
    CHOOSE i \in DOMAIN todos :
        todos[i].id = id /\ \A j \in 1..(i - 1) : todos[j].id # id

\* C18: update_todo with an id that is present replaces the first element
\* with that id, in place, and leaves the length and every other element
\* as they were.
C18_UpdateReplacesFirst ==
    (LastOk("update_todo") /\ req.args.id.n \in Ids(PreTodos))
        => LET k == FirstWithId(PreTodos, req.args.id.n)
           IN /\ Len(NowTodos) = Len(PreTodos)
              /\ NowTodos[k] = Todo(req.args.id.n, req.args.text.s,
                                    req.args.done.b)
              /\ \A i \in DOMAIN PreTodos : i # k => NowTodos[i] = PreTodos[i]

\* C18 witness: an update_todo on a list whose second element has the same
\* id as the first and is left as it was.
C18_Witness ==
    /\ LastOk("update_todo")
    /\ Count(PreTodos, req.args.id.n) >= 2
    /\ NowTodos[1] # PreTodos[1]
    /\ NowTodos[2] = PreTodos[2]
    /\ NowTodos[2] # NowTodos[1]

\* ---------------------------------------------------------------- C19
\* C19: when the reloaded document has no todos key or a value that is not
\* an array of Todo, get_todos answers the empty list and leaves the durable
\* document as it was; a successful add_todo or remove_todo then stores the
\* list computed from the empty list.
C19_MalformedReadsEmpty ==
    pre.disk.kind # "array" =>
        /\ (req.name = "get_todos" /\ fault = "none")
              => resp = Ok("array", <<>>) /\ store.disk = pre.disk
        /\ LastOk("add_todo") => store.disk = to_value(<<resp.todos[1]>>)
        /\ LastOk("remove_todo") => store.disk = to_value(<<>>)

\* C19 witness: an add_todo answered Ok on a document whose todos value was
\* not an array of Todo.
C19_Witness == LastOk("add_todo") /\ pre.disk = Malformed

\* ---------------------------------------------------------------- C15
\* C15: a get_todos that succeeds returns the todos of the durable document
\* as it is at the reload, whatever the in-memory copy held and whoever
\* saved the document last.
C15_FreshReads ==
    LastOk("get_todos")
        => /\ resp = Ok("array", from_value(pre.disk))
           /\ ops = <<"open", "reload", "get">>

\* C15 witness: a get_todos that returned todos saved by another process
\* while the in-memory copy still held a different list.
C15_Witness ==
    /\ LastOk("get_todos")
    /\ pre.disk \in ExternalDocs
    /\ from_value(pre.mem) # from_value(pre.disk)
    /\ resp.todos # <<>>

\* ---------------------------------------------------------------- C11
\* C11: once the session is Closed the process ends with an exit status,
\* 0 after end-of-input: there is no state in which the loop has ended, the
\* process still runs and no step is left that could end it.
C11_ShutdownExits ==
    /\ (session.proc = "exited" /\ session.cause = "eof") => session.status = 0
    /\ ~(/\ session.sess = "Closed"
         /\ session.proc = "running"
         /\ ~ENABLED NextSession)

\* ---------------------------------------------------------------- C14
ErrorKinds == {"NotFound", "InvalidParameters", "ExecutionError"}

\* C14: a step that writes a response leaves the session Serving, whatever
\* the response; what call_tool hands back is always a response; the
\* session leaves Serving only by end-of-input or a transport failure; and a
\* request that was read is answered unless the session closes.
C14_ErrorsNotFatal ==
    /\ [][Len(session'.out) > Len(session.out)
             => session'.sess = "Serving"]_vars
    /\ [](session.have => resp.kind \in {"Ok"} \cup ErrorKinds)
    /\ [][(session.sess = "Serving" /\ session'.sess = "Closed")
             => session'.cause \in {"eof", "io"}]_vars
    /\ \A i \in 1..MaxRequests :
          (session.cur = i) ~> (Len(session.out) >= i \/ session.sess = "Closed")

\* C14 witness: ExecutionError, InvalidParameters and NotFound have been
\* answered one after the other and the session still serves.
C14_Witness ==
    /\ session.sess = "Serving"
    /\ Len(session.out) = 3
    /\ session.out[1].kind = "ExecutionError"
    /\ session.out[2].kind = "InvalidParameters"
    /\ session.out[3].kind = "NotFound"

\* ---------------------------------------------------------------- C16
\* C16: the responses written are, in order, the answers to the requests
\* read; at most one request is read and not yet answered, and it is the
\* one being handled.
C16_OneToOneInOrder ==
    LET out == session.out
        inq == session.inq
    IN /\ Len(out) <= Len(inq)
       /\ Len(inq) <= Len(out) + 1
       /\ \A i \in DOMAIN out : out[i].id = i /\ out[i].name = inq[i].name
       /\ session.cur # 0 =>
             session.cur = Len(out) + 1 /\ session.cur = Len(inq)
       /\ session.have => req.name = inq[session.cur].name

\* C16 witness: two requests answered and a third handled, its response
\* not yet written.
C16_Witness ==
    /\ Len(session.out) = 2
    /\ session.cur = 3
    /\ session.have

====
